---------------------------- MODULE Spec2Model ----------------------------
(***************************************************************************)
(* A model of @xystack/up: the package-manager adapter and registry client *)
(* of src/utils/pm.ts, and the two orchestrators that drive them, `run` of *)
(* src/cli.ts (the interactive CLI) and `upgradeTool.execute` of pm.ts     *)
(* (the tool entry, with its --all flag).                                  *)
(*                                                                         *)
(* Strings the program computes on (version strings, the text a listing   *)
(* command prints) are sequences of one-character strings; elsewhere        *)
(* package names and manager names are opaque.                             *)
(* Every call of the program on a collaborator (a `which` probe, a listing *)
(* command, a registry request, a prompt, an upgrade command) is appended  *)
(* to `log`, the history the properties are stated on.                     *)
(*                                                                         *)
(* Spec is a run of either orchestrator.  UnitSpec is one call of one of   *)
(* the adapter's functions (compareVersions, detectPackageManagers,        *)
(* getGlobalPackages on text, upgradePackages) on arguments drawn from     *)
(* bounded sets.                                                           *)
(***************************************************************************)
EXTENDS Integers, Sequences, FiniteSets, TLC

VARIABLES
    entry,              \* "cli": run() of cli.ts; "tool": upgradeTool.execute
    all,                \* args.all of the tool (FALSE for the CLI)
    pc,                 \* the await the orchestrator is suspended at
    idx,                \* position of the loop being executed
    packageManagers,    \* const packageManagers
    allPackages,        \* const allPackages
    packagesWithLatest, \* const packagesWithLatest
    updatablePackages,  \* const updatablePackages
    packagesToUpgrade,  \* const packagesToUpgrade / selected
    packagesByPM,       \* the Map, as its entries in insertion order
    processedCount,     \* let processedCount
    totalCount,         \* const totalCount
    failed,             \* const failed (tool only)
    messages,           \* what was shown to the user, in order
    result,             \* what execute returned or threw (tool only)
    exitCode,           \* the process exit code, -1 while the process runs
    log,                \* the calls made on the collaborators, in order
    call,               \* the adapter function called on its own, with its arguments
    ret                 \* what that call returned or threw

vars == <<entry, all, pc, idx, packageManagers, allPackages, packagesWithLatest,
          updatablePackages, packagesToUpgrade, packagesByPM, processedCount,
          totalCount, failed, messages, result, exitCode, log, call, ret>>

-----------------------------------------------------------------------------
(* Bounds of the model. *)

\* The most packages the listings of one run return together.
MaxPackages == 2

\* Version strings, as sequences of characters.
V100 == <<"1", ".", "0", ".", "0">>
Vv11 == <<"v", "1", ".", "1">>
V110 == <<"1", ".", "1", ".", "0">>
V20 == <<"2", ".", "0">>

\* The name@version pairs a listing reports.
Listed == {[name |-> "typescript", version |-> V100],
           [name |-> "eslint", version |-> Vv11]}

-----------------------------------------------------------------------------
(* Sequences. *)

SeqsUpTo(S, n) == UNION {[1..k -> S] : k \in 0..n}

Range(s) == {s[i] : i \in 1..Len(s)}

RECURSIVE Concat(_)
Concat(ss) == IF ss = <<>> THEN <<>> ELSE Head(ss) \o Concat(Tail(ss))

\* The subsequence of s at the positions in I, in order.
RECURSIVE Pick(_, _, _)
Pick(s, I, i) ==
    IF i > Len(s) THEN <<>>
    ELSE (IF i \in I THEN <<s[i]>> ELSE <<>>) \o Pick(s, I, i + 1)

MapSeq(s, Op(_)) == [i \in 1..Len(s) |-> Op(s[i])]

Count(s, Test(_)) == Cardinality({i \in 1..Len(s) : Test(s[i])})

-----------------------------------------------------------------------------
(* The history of calls on the collaborators. *)

\* op: "which" | "list" | "fetch" | "multiselect" | "confirm" |
\*     "upgradePackages" (the call) | "install" (the process it starts)
\* res: how the collaborator answered ("ok" | "fail"; a prompt's answer);
\* val: the version a registry response carried.
Event(op, pm, names, res, val) ==
    [op |-> op, pm |-> pm, names |-> names, res |-> res, val |-> val]

Msg(ch, text, pm) == [ch |-> ch, text |-> text, pm |-> pm]

NoResult == [kind |-> "none", success |-> FALSE, message |-> "",
             upgraded |-> 0, total |-> 0, failed |-> <<>>]

\* No adapter function is called on its own; a call that has not returned.
NoCall == [fn |-> "none"]

NoReturn == [done |-> FALSE]

-----------------------------------------------------------------------------
(* src/utils/pm.ts: the package manager adapter.  An operation returns     *)
(* whether it threw, its value, and the calls it made on the collaborators. *)

\* const managers = ["npm", "pnpm", "yarn", "bun"]
Managers == <<"npm", "pnpm", "yarn", "bun">>

ManagerSet == Range(Managers)

Outcome(ok) == IF ok THEN "ok" ELSE "fail"

\* Variant: without the try/catch, a probe that fails rejects.
commandExists_NoCatch(command, present) ==
    [threw |-> (command \notin present),
     value |-> (command \in present),
     events |-> <<Event("which", command, <<>>, Outcome(command \in present), <<>>)>>]

\* `which <command>` resolves for the commands in present and rejects for
\* the others; the catch turns a rejection into false.
commandExists(command, present) ==
    [threw |-> FALSE,
     value |-> (command \in present),
     events |-> <<Event("which", command, <<>>, Outcome(command \in present), <<>>)>>]

\* The loop over managers, one probe each, pushing those that exist.
RECURSIVE detectLoop(_, _, _, _)
detectLoop(i, present, available, events) ==
    IF i > Len(Managers) THEN [threw |-> FALSE, value |-> available, events |-> events]
    ELSE LET r == commandExists(Managers[i], present)
         IN  IF r.threw
             THEN [threw |-> TRUE, value |-> available, events |-> events \o r.events]
             ELSE detectLoop(i + 1, present,
                             IF r.value THEN Append(available, Managers[i])
                             ELSE available,
                             events \o r.events)

detectPackageManagers(present) == detectLoop(1, present, <<>>, <<>>)

\* One entry of a listing's output: a line (or, for npm, a dependency) that
\* either yields a name and a version or does not (a header, a summary, a
\* dependency without a version).
Item(wf, name, version) == [wf |-> wf, name |-> name, version |-> version]

Junk == Item(FALSE, "", <<>>)

GlobalPackage(name, version, pm) == [name |-> name, version |-> version, pm |-> pm]

\* The entries that match are pushed, tagged with pm; the others are skipped.
RECURSIVE parseItems(_, _)
parseItems(items, pm) ==
    IF items = <<>> THEN <<>>
    ELSE (IF Head(items).wf
          THEN <<GlobalPackage(Head(items).name, Head(items).version, pm)>>
          ELSE <<>>) \o parseItems(Tail(items), pm)

\* Variant: without the try/catch, a failing command rejects.
getGlobalPackages_NoCatch(pm, out) ==
    [threw |-> ~out.ok,
     value |-> IF out.ok THEN parseItems(out.items, pm) ELSE <<>>,
     events |-> <<Event("list", pm, <<>>, Outcome(out.ok), <<>>)>>]

\* Variant: every package is attributed to npm, whatever pm lists it.
getGlobalPackages_NpmTag(pm, out) ==
    [threw |-> FALSE,
     value |-> IF out.ok THEN parseItems(out.items, "npm") ELSE <<>>,
     events |-> <<Event("list", pm, <<>>, Outcome(out.ok), <<>>)>>]

\* Variant: the command is probed again before it is run.
getGlobalPackages_Reprobe(pm, out) ==
    [threw |-> FALSE,
     value |-> IF out.ok THEN parseItems(out.items, pm) ELSE <<>>,
     events |-> <<Event("which", pm, <<>>, "ok", <<>>),
                  Event("list", pm, <<>>, Outcome(out.ok), <<>>)>>]

\* out: the listing command's outcome, [ok, items].  A command that fails
\* (or output that does not parse as a whole) lands in the catch: [].
getGlobalPackages(pm, out) ==
    [threw |-> FALSE,
     value |-> IF out.ok THEN parseItems(out.items, pm) ELSE <<>>,
     events |-> <<Event("list", pm, <<>>, Outcome(out.ok), <<>>)>>]

\* The command line of an upgrade: the binary, its subcommand, and each
\* name with the latest tag.
UpgradeCommand(pm, packageNames) ==
    [bin |-> pm,
     sub |-> CASE pm = "npm" -> "install -g"
               [] pm = "pnpm" -> "add -g"
               [] pm = "yarn" -> "global add"
               [] pm = "bun" -> "add -g",
     args |-> [i \in 1..Len(packageNames) |-> [name |-> packageNames[i], tag |-> "latest"]]]

NoError == [bin |-> "", sub |-> "", args |-> <<>>]

\* Variant: a failing command is swallowed, as the listing's is.
upgradePackages_Swallow(pm, packageNames, execOk) ==
    IF Len(packageNames) = 0
    THEN [threw |-> FALSE, error |-> NoError, events |-> <<>>]
    ELSE [threw |-> FALSE,
          error |-> NoError,
          events |-> <<Event("install", pm, packageNames, Outcome(execOk), <<>>)>>]

\* Variant: without the early return, the command runs with no names.
upgradePackages_NoGuard(pm, packageNames, execOk) ==
    [threw |-> ~execOk,
     error |-> IF execOk THEN NoError ELSE UpgradeCommand(pm, packageNames),
     events |-> <<Event("install", pm, packageNames, Outcome(execOk), <<>>)>>]

\* execOk: whether the upgrade command exits with zero.  The rejection of
\* execAsync carries the command and is not caught here.
upgradePackages(pm, packageNames, execOk) ==
    IF Len(packageNames) = 0
    THEN [threw |-> FALSE, error |-> NoError, events |-> <<>>]
    ELSE [threw |-> ~execOk,
          error |-> IF execOk THEN NoError ELSE UpgradeCommand(pm, packageNames),
          events |-> <<Event("install", pm, packageNames, Outcome(execOk), <<>>)>>]

-----------------------------------------------------------------------------
(* src/utils/pm.ts: what getGlobalPackages extracts from the text a        *)
(* listing command prints.  The text is a sequence of characters; the      *)
(* box-drawing characters (vertical, tee, elbow, horizontal) of the        *)
(* pattern are written "|", "|-", "L" and "--".                           *)

\* The box-drawing characters of the pattern.
TreeGlyphs == {"|", "|-", "L", "--"}

Whitespace == {" ", "\n"}

\* stdout.split("\n")
RECURSIVE SplitLines(_, _)
SplitLines(s, piece) ==
    IF s = <<>> THEN <<piece>>
    ELSE IF Head(s) = "\n" THEN <<piece>> \o SplitLines(Tail(s), <<>>)
    ELSE SplitLines(Tail(s), Append(piece, Head(s)))

RECURSIVE StripLeading(_, _)
StripLeading(s, chars) ==
    IF s # <<>> /\ Head(s) \in chars THEN StripLeading(Tail(s), chars) ELSE s

RECURSIVE StripTrailing(_, _)
StripTrailing(s, chars) ==
    IF s # <<>> /\ s[Len(s)] \in chars
    THEN StripTrailing(SubSeq(s, 1, Len(s) - 1), chars)
    ELSE s

\* s.trim()
Trim(s) == StripTrailing(StripLeading(s, Whitespace), Whitespace)

\* .filter((line) => line.trim())
NonBlank(lines) == SelectSeq(lines, LAMBDA line : Trim(line) # <<>>)

\* line.replace(/^[<box-drawing>\s]+/, "").trim()
CleanLine(line) == Trim(StripLeading(line, TreeGlyphs \cup Whitespace))

\* An entry that yields nothing, for entries whose names are text.
NoItem == Item(FALSE, <<>>, <<>>)

\* The positions of s, neither first nor last, that hold one of chars: where
\* a separator can stand with something before it and something after it.
Inner(s, chars) == {k \in 2..(Len(s) - 1) : s[k] \in chars}

Least(S) == CHOOSE k \in S : \A j \in S : k <= j

Greatest(S) == CHOOSE k \in S : \A j \in S : k >= j

\* name: match[1].trim(), version: match[2].trim(), split at position k.
TrimmedAround(s, k) ==
    Item(TRUE, Trim(SubSeq(s, 1, k - 1)), Trim(SubSeq(s, k + 1, Len(s))))

\* cleanLine.match(/^(.+?)@(.+)$/): the lazy first group ends before the
\* first @ that has something on both sides.
MatchNameAtVersion(cleanLine) ==
    LET K == Inner(cleanLine, {"@"})
    IN  IF K = {} THEN NoItem ELSE TrimmedAround(cleanLine, Least(K))

\* cleanLine.match(/^(.+?)\s+(.+)$/): the lazy first group ends before the
\* first whitespace; the second group is all that follows the whitespace.
MatchNameSpaceVersion(cleanLine) ==
    LET K == Inner(cleanLine, Whitespace)
    IN  IF K = {} THEN NoItem ELSE TrimmedAround(cleanLine, Least(K))

\* item.match(/(.+)@(.+)/): the greedy first group ends before the last @
\* that has something on both sides; nothing is trimmed.
MatchItemAtVersion(item) ==
    LET K == Inner(item, {"@"})
    IN  IF K = {} THEN NoItem
        ELSE LET k == Greatest(K)
             IN  Item(TRUE, SubSeq(item, 1, k - 1), SubSeq(item, k + 1, Len(item)))

\* A line of yarn's output as JSON.parse sees it: not JSON (it throws), or
\* an object with its type and, below data, its body.
YarnLine(json, type, body) == [json |-> json, type |-> type, body |-> body]

\* if (data.type === "list" && data.data?.body) for (const item of body)
YarnLineItems(line) ==
    IF line.json /\ line.type = "list"
    THEN [i \in 1..Len(line.body) |-> MatchItemAtVersion(line.body[i])]
    ELSE <<>>

\* The entries of a listing's output, line by line: the text of bun and
\* pnpm, the JSON lines of yarn.
LineItems(pm, stdout) ==
    IF pm = "yarn"
    THEN Concat([i \in 1..Len(stdout) |-> YarnLineItems(stdout[i])])
    ELSE LET lines == NonBlank(SplitLines(stdout, <<>>))
         IN  [i \in 1..Len(lines) |->
                 IF pm = "bun" THEN MatchNameAtVersion(CleanLine(lines[i]))
                 ELSE MatchNameSpaceVersion(CleanLine(lines[i]))]

-----------------------------------------------------------------------------
(* src/utils/pm.ts: the registry client and the version comparison.        *)

\* A registry response: the request failed ("error"), answered with a
\* non-success status ("notok"), or answered with a body whose version
\* field is version (<<>>: missing or empty).
Response(kind, version) == [kind |-> kind, version |-> version]

\* What the registry can answer for a name.  For typescript (listed at
\* 1.0.0): a failed request, a body without version, or 1.1.0, which is
\* newer.  For eslint (listed at v1.1): a non-success status, 1.1.0, which
\* is not newer, or 2.0, which is.
RegistryResponses(packageName) ==
    IF packageName = "typescript"
    THEN {Response("error", <<>>), Response("ok", <<>>), Response("ok", V110)}
    ELSE {Response("notok", <<>>), Response("ok", V110), Response("ok", V20)}

\* Variant: without the try/catch, a failed request rejects.
getLatestVersion_NoCatch(packageName, resp) ==
    [threw |-> (resp.kind = "error"),
     null |-> ~(resp.kind = "ok" /\ resp.version # <<>>),
     value |-> IF resp.kind = "ok" THEN resp.version ELSE <<>>,
     events |-> <<Event("fetch", "-", <<packageName>>, Outcome(resp.kind = "ok"),
                        resp.version)>>]

\* null is [null |-> TRUE]; `data.version || null` is null for an empty version.
getLatestVersion(packageName, resp) ==
    [threw |-> FALSE,
     null |-> ~(resp.kind = "ok" /\ resp.version # <<>>),
     value |-> IF resp.kind = "ok" THEN resp.version ELSE <<>>,
     events |-> <<Event("fetch", "-", <<packageName>>, Outcome(resp.kind = "ok"),
                        resp.version)>>]

Digits == {"0", "1", "2", "3", "4", "5", "6", "7", "8", "9"}

DigitValue(c) ==
    CASE c = "0" -> 0 [] c = "1" -> 1 [] c = "2" -> 2 [] c = "3" -> 3 [] c = "4" -> 4
      [] c = "5" -> 5 [] c = "6" -> 6 [] c = "7" -> 7 [] c = "8" -> 8 [] c = "9" -> 9

\* Variant: the string is split as it is, prefix included.
StripNonDigitPrefix_Kept(s) == s

\* s.replace(/^[^0-9]+/, ""): the leading run of non-digits is dropped.
RECURSIVE StripNonDigitPrefix(_)
StripNonDigitPrefix(s) ==
    IF s = <<>> \/ Head(s) \in Digits THEN s ELSE StripNonDigitPrefix(Tail(s))

\* s.split("."): the pieces between the dots; "" splits into one empty piece.
RECURSIVE SplitDots(_, _)
SplitDots(s, piece) ==
    IF s = <<>> THEN <<piece>>
    ELSE IF Head(s) = "." THEN <<piece>> \o SplitDots(Tail(s), <<>>)
    ELSE SplitDots(Tail(s), Append(piece, Head(s)))

RECURSIVE DecimalValue(_, _)
DecimalValue(s, acc) ==
    IF s = <<>> THEN acc ELSE DecimalValue(Tail(s), 10 * acc + DigitValue(Head(s)))

AllDigits(s) == \A i \in 1..Len(s) : s[i] \in Digits

\* Number(piece) for pieces over digits, signs and other characters that
\* appear in no numeric literal: "" is 0, a run of digits its value, a
\* signed run of digits its signed value, anything else NaN.
ToNumber(piece) ==
    IF piece = <<>> THEN [nan |-> FALSE, val |-> 0]
    ELSE IF AllDigits(piece) THEN [nan |-> FALSE, val |-> DecimalValue(piece, 0)]
    ELSE IF Head(piece) \in {"-", "+"} /\ Len(piece) > 1 /\ AllDigits(Tail(piece))
         THEN [nan |-> FALSE,
               val |-> IF Head(piece) = "-" THEN 0 - DecimalValue(Tail(piece), 0)
                       ELSE DecimalValue(Tail(piece), 0)]
    ELSE [nan |-> TRUE, val |-> 0]

\* parts[i] || 0: undefined (past the end), NaN and 0 all give 0.
PartOrZero(parts, i) ==
    IF i > Len(parts) \/ parts[i].nan THEN 0 ELSE parts[i].val

\* Variant: the loop stops at the end of the shorter list.
Max_Shorter(a, b) == IF a <= b THEN a ELSE b

Max(a, b) == IF a >= b THEN a ELSE b

\* Variant: latest counts as newer as soon as it is not older.
compareLoop_NotOlder(currentParts, latestParts, i) ==
    IF i > Max(Len(currentParts), Len(latestParts)) THEN FALSE
    ELSE PartOrZero(latestParts, i) >= PartOrZero(currentParts, i)

RECURSIVE compareLoop(_, _, _)
compareLoop(currentParts, latestParts, i) ==
    IF i > Max(Len(currentParts), Len(latestParts)) THEN FALSE
    ELSE LET curr == PartOrZero(currentParts, i)
             lat == PartOrZero(latestParts, i)
         IN  IF lat > curr THEN TRUE
             ELSE IF lat < curr THEN FALSE
             ELSE compareLoop(currentParts, latestParts, i + 1)

compareVersions(current, latest) ==
    IF current = <<>> \/ latest = <<>> THEN FALSE
    ELSE LET currentParts == MapSeq(SplitDots(StripNonDigitPrefix(current), <<>>), ToNumber)
             latestParts == MapSeq(SplitDots(StripNonDigitPrefix(latest), <<>>), ToNumber)
         IN  compareLoop(currentParts, latestParts, 1)

\* { ...pkg, latestVersion, hasUpdate }
PackageWithLatest(pkg, latestVersion, hasUpdate) ==
    [name |-> pkg.name, version |-> pkg.version, pm |-> pkg.pm,
     latestVersion |-> latestVersion, hasUpdate |-> hasUpdate]

-----------------------------------------------------------------------------
(* What the collaborators can answer.                                      *)

ItemChoices == {Item(TRUE, l.name, l.version) : l \in Listed} \cup {Junk}

\* A listing command fails, or prints some entries.
ListingOutcomes ==
    {[ok |-> FALSE, items |-> <<>>]}
        \cup {[ok |-> TRUE, items |-> s] : s \in SeqsUpTo(ItemChoices, MaxPackages)}

\* The multi-select is cancelled, or returns the options at some positions
\* (required: false, so possibly none).
Selections(options) ==
    {[cancel |-> TRUE, picked |-> {}]}
        \cup {[cancel |-> FALSE, picked |-> I] : I \in SUBSET (1..Len(options))}

ConfirmAnswers == {"cancel", "yes", "no"}

NameOf(pkg) == pkg.name

-----------------------------------------------------------------------------
(* Steps shared by the two orchestrators' code (the same statements in     *)
(* cli.ts and in upgradeTool.execute).                                     *)

\* Variant: hasUpdate whenever the latest version is another string.
PushChecked_AnyOther(withLatest, pkg, r) ==
    IF r.null THEN withLatest
    ELSE Append(withLatest, PackageWithLatest(pkg, r.value, r.value # pkg.version))

\* if (latestVersion) push { ...pkg, latestVersion, hasUpdate }
PushChecked(withLatest, pkg, r) ==
    IF r.null THEN withLatest
    ELSE Append(withLatest,
                PackageWithLatest(pkg, r.value, compareVersions(pkg.version, r.value)))

\* Variant: every checked package is offered.
FilterUpdatable_All(withLatest) == withLatest

\* packagesWithLatest.filter((pkg) => pkg.hasUpdate)
FilterUpdatable(withLatest) == SelectSeq(withLatest, LAMBDA q : q.hasUpdate)

\* The Map of manager to packages, filled in the order of pkgs; its entries
\* in insertion order.
RECURSIVE groupLoop(_, _)
groupLoop(pkgs, map) ==
    IF pkgs = <<>> THEN map
    ELSE LET q == Head(pkgs)
             has == \E i \in 1..Len(map) : map[i].pm = q.pm
             withKey == IF has THEN map ELSE Append(map, [pm |-> q.pm, packages |-> <<>>])
             pushed == [i \in 1..Len(withKey) |->
                          IF withKey[i].pm = q.pm
                          THEN [withKey[i] EXCEPT !.packages = Append(@, q)]
                          ELSE withKey[i]]
         IN  groupLoop(Tail(pkgs), pushed)

\* Variant: one entry per package, never merged by manager.
GroupByPM_PerPackage(pkgs) ==
    [i \in 1..Len(pkgs) |-> [pm |-> pkgs[i].pm, packages |-> <<pkgs[i]>>]]

GroupByPM(pkgs) == groupLoop(pkgs, <<>>)

-----------------------------------------------------------------------------
(* src/cli.ts: run(), and the entry point that catches what it throws.     *)

FatalMsg == Msg("console.error", "Fatal error:", "-")

\* Variant: the confirmation stops the run only when cancelled.
CliConfirmStops_OnlyCancel(answer) == answer = "cancel"

\* p.isCancel(confirm) || !confirm
CliConfirmStops(answer) == answer = "cancel" \/ answer = "no"

\* Variant: without the try/catch, a failing upgrade rejects run().
CliTryUpgrade_NoCatch(pm, packageNames, execOk) ==
    LET r == upgradePackages(pm, packageNames, execOk)
    IN  [threw |-> r.threw,
         ok |-> ~r.threw,
         events |-> <<Event("upgradePackages", pm, packageNames, Outcome(~r.threw), <<>>)>>
                        \o r.events,
         messages |-> <<>>]

\* try { await upgradePackages(pm, packageNames); processedCount += ... }
\* catch (error) { s.stop(...); p.log.error(`${pm}: ${error}`) }
CliTryUpgrade(pm, packageNames, execOk) ==
    LET r == upgradePackages(pm, packageNames, execOk)
    IN  [threw |-> FALSE,
         ok |-> ~r.threw,
         events |-> <<Event("upgradePackages", pm, packageNames, Outcome(~r.threw), <<>>)>>
                        \o r.events,
         messages |-> IF r.threw
                      THEN <<Msg("stop", "Failed to upgrade packages via", pm),
                             Msg("log.error", "error", pm)>>
                      ELSE <<>>]

\* s.stop("All packages upgraded"); p.outro(...)
CliReport ==
    <<Msg("stop", "All packages upgraded", "-"),
      Msg("outro", "Successfully upgraded all selected packages!", "-")>>

\* Variant: without the check for no managers, run() falls through the
\* empty listing loop to "No global packages found" and exits with 0.
CliDetect_NoCheck ==
    /\ entry = "cli" /\ pc = "detect"
    /\ \E present \in SUBSET ManagerSet :
         LET r == detectPackageManagers(present)
             none == Len(r.value) = 0
         IN  /\ log' = log \o r.events
             /\ packageManagers' = r.value
             /\ pc' = IF none THEN "aborted" ELSE "list"
             /\ exitCode' = IF none THEN 0 ELSE exitCode
             /\ messages' = messages \o
                    (IF none
                     THEN <<Msg("stop", "Found package managers", "-"),
                            Msg("stop", "No global packages found", "-"),
                            Msg("outro", "No global packages found to update", "-")>>
                     ELSE <<Msg("stop", "Found package managers", "-")>>)
    /\ idx' = 1
    /\ UNCHANGED <<call, ret, entry, all, allPackages, packagesWithLatest, updatablePackages,
                   packagesToUpgrade, packagesByPM, processedCount, totalCount,
                   failed, result>>

CliDetect ==
    /\ entry = "cli" /\ pc = "detect"
    /\ \E present \in SUBSET ManagerSet :
         LET r == detectPackageManagers(present)
             none == Len(r.value) = 0
         IN  /\ log' = log \o r.events
             /\ packageManagers' = IF r.threw THEN packageManagers ELSE r.value
             /\ pc' = IF r.threw \/ none THEN "aborted" ELSE "list"
             /\ exitCode' = IF r.threw \/ none THEN 1 ELSE exitCode
             /\ messages' = messages \o
                    (IF r.threw THEN <<FatalMsg>>
                     ELSE IF none
                     THEN <<Msg("stop", "No package managers found", "-"),
                            Msg("outro", "No package managers found on your system", "-")>>
                     ELSE <<Msg("stop", "Found package managers", "-")>>)
    /\ idx' = 1
    /\ UNCHANGED <<call, ret, entry, all, allPackages, packagesWithLatest, updatablePackages,
                   packagesToUpgrade, packagesByPM, processedCount, totalCount,
                   failed, result>>

CliList ==
    /\ entry = "cli" /\ pc = "list"
    /\ \E out \in ListingOutcomes :
         LET pm == packageManagers[idx]
             r == getGlobalPackages(pm, out)
             pkgs == allPackages \o r.value
             last == idx = Len(packageManagers)
             none == last /\ Len(pkgs) = 0
         IN  /\ Len(pkgs) <= MaxPackages
             /\ log' = log \o r.events
             /\ allPackages' = IF r.threw THEN allPackages ELSE pkgs
             /\ pc' = IF r.threw \/ none THEN "aborted"
                      ELSE IF last THEN "check" ELSE "list"
             /\ exitCode' = IF r.threw THEN 1 ELSE IF none THEN 0 ELSE exitCode
             /\ idx' = IF r.threw \/ last THEN 1 ELSE idx + 1
             /\ messages' = messages \o
                    (IF r.threw THEN <<FatalMsg>>
                     ELSE IF none
                     THEN <<Msg("stop", "No global packages found", "-"),
                            Msg("outro", "No global packages found to update", "-")>>
                     ELSE IF last THEN <<Msg("stop", "Found global packages", "-")>>
                     ELSE <<>>)
    /\ UNCHANGED <<call, ret, entry, all, packageManagers, packagesWithLatest, updatablePackages,
                   packagesToUpgrade, packagesByPM, processedCount, totalCount,
                   failed, result>>

CliCheck ==
    /\ entry = "cli" /\ pc = "check"
    /\ \E resp \in RegistryResponses(allPackages[idx].name) :
         LET pkg == allPackages[idx]
             r == getLatestVersion(pkg.name, resp)
             withLatest == PushChecked(packagesWithLatest, pkg, r)
             last == idx = Len(allPackages)
             updatable == FilterUpdatable(withLatest)
             none == last /\ Len(updatable) = 0
         IN  /\ log' = log \o r.events
             /\ packagesWithLatest' = IF r.threw THEN packagesWithLatest ELSE withLatest
             /\ updatablePackages' = IF ~r.threw /\ last THEN updatable
                                     ELSE updatablePackages
             /\ pc' = IF r.threw \/ none THEN "aborted"
                      ELSE IF last THEN "select" ELSE "check"
             /\ exitCode' = IF r.threw THEN 1 ELSE IF none THEN 0 ELSE exitCode
             /\ idx' = IF r.threw \/ last THEN 1 ELSE idx + 1
             /\ messages' = messages \o
                    (IF r.threw THEN <<FatalMsg>>
                     ELSE IF none
                     THEN <<Msg("stop", "Check complete", "-"),
                            Msg("outro", "All packages are up to date!", "-")>>
                     ELSE IF last THEN <<Msg("stop", "Found packages with updates", "-")>>
                     ELSE <<>>)
    /\ UNCHANGED <<call, ret, entry, all, packageManagers, allPackages, packagesToUpgrade,
                   packagesByPM, processedCount, totalCount, failed, result>>

CliSelect ==
    /\ entry = "cli" /\ pc = "select"
    /\ \E sel \in Selections(updatablePackages) :
         LET selected == Pick(updatablePackages, sel.picked, 1)
             empty == Len(selected) = 0
             res == IF sel.cancel THEN "cancel" ELSE IF empty THEN "empty" ELSE "some"
         IN  /\ log' = Append(log, Event("multiselect", "-", MapSeq(selected, NameOf),
                                         res, <<>>))
             /\ packagesToUpgrade' = IF sel.cancel \/ empty THEN packagesToUpgrade
                                     ELSE selected
             /\ pc' = IF sel.cancel \/ empty THEN "aborted" ELSE "confirm"
             /\ exitCode' = IF sel.cancel \/ empty THEN 0 ELSE exitCode
             /\ messages' = messages \o
                    (IF sel.cancel THEN <<Msg("cancel", "Operation cancelled", "-")>>
                     ELSE IF empty THEN <<Msg("outro", "No packages selected", "-")>>
                     ELSE <<>>)
    /\ UNCHANGED <<call, ret, entry, all, idx, packageManagers, allPackages, packagesWithLatest,
                   updatablePackages, packagesByPM, processedCount, totalCount,
                   failed, result>>

CliConfirm ==
    /\ entry = "cli" /\ pc = "confirm"
    /\ \E answer \in ConfirmAnswers :
         LET stop == CliConfirmStops(answer)
             groups == GroupByPM(packagesToUpgrade)
             nothing == Len(groups) = 0
         IN  /\ log' = Append(log, Event("confirm", "-", <<>>, answer, <<>>))
             /\ packagesByPM' = IF stop THEN packagesByPM ELSE groups
             /\ totalCount' = IF stop THEN totalCount ELSE Len(packagesToUpgrade)
             /\ pc' = IF stop THEN "aborted" ELSE IF nothing THEN "reported" ELSE "upgrade"
             /\ exitCode' = IF stop \/ nothing THEN 0 ELSE exitCode
             /\ messages' = messages \o
                    (IF stop THEN <<Msg("cancel", "Operation cancelled", "-")>>
                     ELSE IF nothing THEN CliReport ELSE <<>>)
    /\ processedCount' = 0
    /\ idx' = 1
    /\ UNCHANGED <<call, ret, entry, all, packageManagers, allPackages, packagesWithLatest,
                   updatablePackages, packagesToUpgrade, failed, result>>

\* Variant: the exit code tells whether every batch went through.
CliUpgrade_FailureExit ==
    /\ entry = "cli" /\ pc = "upgrade"
    /\ \E execOk \in BOOLEAN :
         LET group == packagesByPM[idx]
             packageNames == MapSeq(group.packages, NameOf)
             t == CliTryUpgrade(group.pm, packageNames, execOk)
             last == idx = Len(packagesByPM)
             processed == IF t.ok THEN processedCount + Len(group.packages)
                          ELSE processedCount
         IN  /\ log' = log \o t.events
             /\ processedCount' = processed
             /\ pc' = IF t.threw THEN "aborted" ELSE IF last THEN "reported" ELSE "upgrade"
             /\ exitCode' = IF t.threw THEN 1
                            ELSE IF last THEN (IF processed = totalCount THEN 0 ELSE 1)
                            ELSE exitCode
             /\ idx' = IF t.threw \/ last THEN 1 ELSE idx + 1
             /\ messages' = messages \o <<Msg("message", "Upgrading via", group.pm)>>
                    \o (IF t.threw THEN <<FatalMsg>>
                        ELSE t.messages \o (IF last THEN CliReport ELSE <<>>))
    /\ UNCHANGED <<call, ret, entry, all, packageManagers, allPackages,
                   packagesWithLatest, updatablePackages, packagesToUpgrade,
                   packagesByPM, totalCount, failed, result>>

CliUpgrade ==
    /\ entry = "cli" /\ pc = "upgrade"
    /\ \E execOk \in BOOLEAN :
         LET group == packagesByPM[idx]
             packageNames == MapSeq(group.packages, NameOf)
             t == CliTryUpgrade(group.pm, packageNames, execOk)
             last == idx = Len(packagesByPM)
         IN  /\ log' = log \o t.events
             /\ processedCount' = IF t.ok THEN processedCount + Len(group.packages)
                                  ELSE processedCount
             /\ pc' = IF t.threw THEN "aborted" ELSE IF last THEN "reported" ELSE "upgrade"
             /\ exitCode' = IF t.threw THEN 1 ELSE IF last THEN 0 ELSE exitCode
             /\ idx' = IF t.threw \/ last THEN 1 ELSE idx + 1
             /\ messages' = messages \o <<Msg("message", "Upgrading via", group.pm)>>
                    \o (IF t.threw THEN <<FatalMsg>>
                        ELSE t.messages \o (IF last THEN CliReport ELSE <<>>))
    /\ UNCHANGED <<call, ret, entry, all, packageManagers, allPackages, packagesWithLatest,
                   updatablePackages, packagesToUpgrade, packagesByPM, totalCount,
                   failed, result>>

-----------------------------------------------------------------------------
(* src/utils/pm.ts: upgradeTool.execute and promptPackageSelection.        *)

Returned(success, message) ==
    [kind |-> "returned", success |-> success, message |-> message,
     upgraded |-> 0, total |-> 0, failed |-> <<>>]

Threw(message) ==
    [kind |-> "threw", success |-> FALSE, message |-> message,
     upgraded |-> 0, total |-> 0, failed |-> <<>>]

\* A rejection of a callee that execute does not catch rejects execute.
Uncaught == Threw("uncaught")

\* return { success: false, message: "No packages selected for upgrade" }
NothingSelected == Returned(FALSE, "No packages selected for upgrade")

\* isCancel(confirmUpgrade) || !confirmUpgrade
ToolConfirmStops(answer) == answer = "cancel" \/ answer = "no"

\* Variant: the count is raised before the upgrade is awaited.
ToolTryUpgrade_CountsFirst(pm, packageNames, execOk) ==
    LET r == upgradePackages(pm, packageNames, execOk)
    IN  [threw |-> FALSE,
         ok |-> TRUE,
         events |-> <<Event("upgradePackages", pm, packageNames, Outcome(~r.threw), <<>>)>>
                        \o r.events,
         failed |-> IF r.threw THEN <<[pm |-> pm, error |-> r.error]>> ELSE <<>>,
         messages |-> IF r.threw
                      THEN <<Msg("fail", "Failed to upgrade packages via", pm)>>
                      ELSE <<>>]

\* try { await upgradePackages(pm, packageNames); processedCount += ... }
\* catch (error) { s.fail(...); failed.push(`${pm}: ${error}`) }
ToolTryUpgrade(pm, packageNames, execOk) ==
    LET r == upgradePackages(pm, packageNames, execOk)
    IN  [threw |-> FALSE,
         ok |-> ~r.threw,
         events |-> <<Event("upgradePackages", pm, packageNames, Outcome(~r.threw), <<>>)>>
                        \o r.events,
         failed |-> IF r.threw THEN <<[pm |-> pm, error |-> r.error]>> ELSE <<>>,
         messages |-> IF r.threw
                      THEN <<Msg("fail", "Failed to upgrade packages via", pm)>>
                      ELSE <<>>]

\* The spinner's last word: succeed when every package was processed.
ToolFinalSpinner(processed, total) ==
    IF processed = total
    THEN <<Msg("succeed", "All packages upgraded", "-")>>
    ELSE <<Msg("fail", "Upgrade completed with errors", "-")>>

\* return { success: failed.length === 0, upgraded, total, failed, message }
ToolReport(processed, total, failedList) ==
    [kind |-> "returned",
     success |-> (Len(failedList) = 0),
     message |-> IF Len(failedList) = 0 THEN "Successfully upgraded"
                 ELSE "Upgraded processed/total packages. n failed.",
     upgraded |-> processed,
     total |-> total,
     failed |-> failedList]

ToolDetect ==
    /\ entry = "tool" /\ pc = "detect"
    /\ \E present \in SUBSET ManagerSet :
         LET r == detectPackageManagers(present)
             none == Len(r.value) = 0
         IN  /\ log' = log \o r.events
             /\ packageManagers' = IF r.threw THEN packageManagers ELSE r.value
             /\ pc' = IF r.threw \/ none THEN "aborted" ELSE "list"
             /\ result' = IF r.threw THEN Uncaught
                          ELSE IF none
                          THEN Threw("No package managers found on your system")
                          ELSE result
             /\ messages' = messages \o
                    (IF r.threw THEN <<>>
                     ELSE IF none THEN <<Msg("fail", "No package managers found", "-")>>
                     ELSE <<Msg("succeed", "Found package managers", "-")>>)
    /\ idx' = 1
    /\ UNCHANGED <<call, ret, entry, all, allPackages, packagesWithLatest, updatablePackages,
                   packagesToUpgrade, packagesByPM, processedCount, totalCount,
                   failed, exitCode>>

ToolList ==
    /\ entry = "tool" /\ pc = "list"
    /\ \E out \in ListingOutcomes :
         LET pm == packageManagers[idx]
             r == getGlobalPackages(pm, out)
             pkgs == allPackages \o r.value
             last == idx = Len(packageManagers)
             none == last /\ Len(pkgs) = 0
         IN  /\ Len(pkgs) <= MaxPackages
             /\ log' = log \o r.events
             /\ allPackages' = IF r.threw THEN allPackages ELSE pkgs
             /\ pc' = IF r.threw \/ none THEN "aborted"
                      ELSE IF last THEN "check" ELSE "list"
             /\ result' = IF r.threw THEN Uncaught
                          ELSE IF none
                          THEN Returned(TRUE, "No global packages found to update")
                          ELSE result
             /\ idx' = IF r.threw \/ last THEN 1 ELSE idx + 1
             /\ messages' = messages \o
                    (IF r.threw THEN <<>>
                     ELSE IF none THEN <<Msg("succeed", "No global packages found", "-")>>
                     ELSE IF last THEN <<Msg("succeed", "Found global packages", "-")>>
                     ELSE <<>>)
    /\ UNCHANGED <<call, ret, entry, all, packageManagers, packagesWithLatest, updatablePackages,
                   packagesToUpgrade, packagesByPM, processedCount, totalCount,
                   failed, exitCode>>

ToolCheck ==
    /\ entry = "tool" /\ pc = "check"
    /\ \E resp \in RegistryResponses(allPackages[idx].name) :
         LET pkg == allPackages[idx]
             r == getLatestVersion(pkg.name, resp)
             withLatest == PushChecked(packagesWithLatest, pkg, r)
             last == idx = Len(allPackages)
             updatable == FilterUpdatable(withLatest)
             none == last /\ Len(updatable) = 0
         IN  /\ log' = log \o r.events
             /\ packagesWithLatest' = IF r.threw THEN packagesWithLatest ELSE withLatest
             /\ updatablePackages' = IF ~r.threw /\ last THEN updatable
                                     ELSE updatablePackages
             /\ pc' = IF r.threw \/ none THEN "aborted"
                      ELSE IF last THEN "select" ELSE "check"
             /\ result' = IF r.threw THEN Uncaught
                          ELSE IF none THEN Returned(TRUE, "All packages are up to date!")
                          ELSE result
             /\ idx' = IF r.threw \/ last THEN 1 ELSE idx + 1
             /\ messages' = messages \o
                    (IF r.threw THEN <<>>
                     ELSE IF none THEN <<Msg("succeed", "All packages are up to date!", "-")>>
                     ELSE IF last THEN <<Msg("succeed", "Found packages with updates", "-")>>
                     ELSE <<>>)
    /\ UNCHANGED <<call, ret, entry, all, packageManagers, allPackages, packagesToUpgrade,
                   packagesByPM, processedCount, totalCount, failed, exitCode>>

\* Variant: --all takes every checked package, updatable or not.
ToolSelectAll_AllChecked ==
    /\ entry = "tool" /\ pc = "select" /\ all
    /\ LET chosen == packagesWithLatest
           nothing == Len(chosen) = 0
       IN  /\ packagesToUpgrade' = chosen
           /\ packagesByPM' = IF nothing THEN packagesByPM ELSE GroupByPM(chosen)
           /\ totalCount' = IF nothing THEN totalCount ELSE Len(chosen)
           /\ pc' = IF nothing THEN "aborted" ELSE "upgrade"
           /\ result' = IF nothing THEN NothingSelected ELSE result
    /\ processedCount' = 0
    /\ idx' = 1
    /\ UNCHANGED <<call, ret, entry, all, packageManagers, allPackages, packagesWithLatest,
                   updatablePackages, failed, messages, exitCode, log>>

\* args.all: packagesToUpgrade = updatablePackages, no prompt.
ToolSelectAll ==
    /\ entry = "tool" /\ pc = "select" /\ all
    /\ LET chosen == updatablePackages
           nothing == Len(chosen) = 0
       IN  /\ packagesToUpgrade' = chosen
           /\ packagesByPM' = IF nothing THEN packagesByPM ELSE GroupByPM(chosen)
           /\ totalCount' = IF nothing THEN totalCount ELSE Len(chosen)
           /\ pc' = IF nothing THEN "aborted" ELSE "upgrade"
           /\ result' = IF nothing THEN NothingSelected ELSE result
    /\ processedCount' = 0
    /\ idx' = 1
    /\ UNCHANGED <<call, ret, entry, all, packageManagers, allPackages, packagesWithLatest,
                   updatablePackages, failed, messages, exitCode, log>>

\* promptPackageSelection up to its multiselect: [] when cancelled or empty,
\* and execute returns on [].
ToolSelect ==
    /\ entry = "tool" /\ pc = "select" /\ ~all
    /\ \E sel \in Selections(updatablePackages) :
         LET selected == Pick(updatablePackages, sel.picked, 1)
             empty == Len(selected) = 0
             res == IF sel.cancel THEN "cancel" ELSE IF empty THEN "empty" ELSE "some"
         IN  /\ log' = Append(log, Event("multiselect", "-", MapSeq(selected, NameOf),
                                         res, <<>>))
             /\ packagesToUpgrade' = IF sel.cancel \/ empty THEN <<>> ELSE selected
             /\ pc' = IF sel.cancel \/ empty THEN "aborted" ELSE "confirm"
             /\ result' = IF sel.cancel \/ empty THEN NothingSelected ELSE result
    /\ UNCHANGED <<call, ret, entry, all, idx, packageManagers, allPackages, packagesWithLatest,
                   updatablePackages, packagesByPM, processedCount, totalCount,
                   failed, messages, exitCode>>

\* promptPackageSelection from its confirm: [] unless confirmed; then
\* execute groups what was returned.
ToolConfirm ==
    /\ entry = "tool" /\ pc = "confirm"
    /\ \E answer \in ConfirmAnswers :
         LET chosen == IF ToolConfirmStops(answer) THEN <<>> ELSE packagesToUpgrade
             nothing == Len(chosen) = 0
         IN  /\ log' = Append(log, Event("confirm", "-", <<>>, answer, <<>>))
             /\ packagesToUpgrade' = chosen
             /\ packagesByPM' = IF nothing THEN packagesByPM ELSE GroupByPM(chosen)
             /\ totalCount' = IF nothing THEN totalCount ELSE Len(chosen)
             /\ pc' = IF nothing THEN "aborted" ELSE "upgrade"
             /\ result' = IF nothing THEN NothingSelected ELSE result
    /\ processedCount' = 0
    /\ idx' = 1
    /\ UNCHANGED <<call, ret, entry, all, packageManagers, allPackages, packagesWithLatest,
                   updatablePackages, failed, messages, exitCode>>

ToolUpgrade ==
    /\ entry = "tool" /\ pc = "upgrade"
    /\ \E execOk \in BOOLEAN :
         LET group == packagesByPM[idx]
             packageNames == MapSeq(group.packages, NameOf)
             t == ToolTryUpgrade(group.pm, packageNames, execOk)
             last == idx = Len(packagesByPM)
             processed == IF t.ok THEN processedCount + Len(group.packages)
                          ELSE processedCount
             failedNow == failed \o t.failed
         IN  /\ log' = log \o t.events
             /\ processedCount' = processed
             /\ failed' = failedNow
             /\ pc' = IF t.threw THEN "aborted" ELSE IF last THEN "reported" ELSE "upgrade"
             /\ result' = IF t.threw THEN Uncaught
                          ELSE IF last THEN ToolReport(processed, totalCount, failedNow)
                          ELSE result
             /\ idx' = IF t.threw \/ last THEN 1 ELSE idx + 1
             /\ messages' = messages \o <<Msg("update", "Upgrading via", group.pm)>>
                    \o (IF t.threw THEN <<>>
                        ELSE t.messages \o
                             (IF last THEN ToolFinalSpinner(processed, totalCount)
                              ELSE <<>>))
    /\ UNCHANGED <<call, ret, entry, all, packageManagers, allPackages, packagesWithLatest,
                   updatablePackages, packagesToUpgrade, packagesByPM, totalCount,
                   exitCode>>

-----------------------------------------------------------------------------

Init ==
    /\ entry \in {"cli", "tool"}
    /\ all \in BOOLEAN
    /\ entry = "cli" => all = FALSE
    /\ pc = "detect"
    /\ idx = 1
    /\ packageManagers = <<>>
    /\ allPackages = <<>>
    /\ packagesWithLatest = <<>>
    /\ updatablePackages = <<>>
    /\ packagesToUpgrade = <<>>
    /\ packagesByPM = <<>>
    /\ processedCount = 0
    /\ totalCount = 0
    /\ failed = <<>>
    /\ messages = <<>>
    /\ result = NoResult
    /\ exitCode = -1
    /\ log = <<>>
    /\ call = NoCall
    /\ ret = NoReturn

Next ==
    \/ CliDetect
    \/ CliList
    \/ CliCheck
    \/ CliSelect
    \/ CliConfirm
    \/ CliUpgrade
    \/ ToolDetect
    \/ ToolList
    \/ ToolCheck
    \/ ToolSelectAll
    \/ ToolSelect
    \/ ToolConfirm
    \/ ToolUpgrade

Spec == Init /\ [][Next]_vars

-----------------------------------------------------------------------------
(* The adapter's functions called on their own: one call, on arguments     *)
(* drawn from the sets below, and what it returned.                        *)

\* The most components a version string has.
MaxParts == 3

\* A component as written, and the number it stands for.
Component(text, n) == [text |-> text, n |-> n]

Components == {Component(<<"0">>, 0), Component(<<"2">>, 2), Component(<<"1", "0">>, 10)}

\* What a version string starts with: nothing, a range operator, a tag.
Prefixes == {<<>>, <<"^">>, <<"~", "v">>}

\* A version string, by its parts: "^2.10" is the prefix ^ and 2, 10.
Versions == [prefix : Prefixes, parts : SeqsUpTo(Components, MaxParts) \ {<<>>}]

RECURSIVE JoinDots(_)
JoinDots(parts) ==
    IF Len(parts) = 1 THEN parts[1].text
    ELSE parts[1].text \o <<".">> \o JoinDots(Tail(parts))

\* The string itself, as compareVersions receives it.
VersionText(v) == v.prefix \o JoinDots(v.parts)

CompareCalls ==
    {[fn |-> "compareVersions", current |-> c, latest |-> l] : c, l \in Versions}

\* The most components of the strings compared three at a time.
MaxOrderParts == 2

\* Components that are plain numbers and one that is not, which counts as 0.
OrderComponents == {Component(<<"0">>, 0), Component(<<"2">>, 2), Component(<<"x">>, 0)}

\* The empty string (no parts) and the strings of some components.
OrderVersions == [prefix : {<<>>}, parts : SeqsUpTo(OrderComponents, MaxOrderParts)]

OrderText(v) == IF v.parts = <<>> THEN <<>> ELSE VersionText(v)

\* compareVersions on the pairs of three strings.
OrderCalls ==
    {[fn |-> "compareVersions, pairwise", a |-> a, b |-> b, c |-> c] :
        a, b, c \in OrderVersions}

\* Which of the four commands `which` finds.
DetectCalls == {[fn |-> "detectPackageManagers", present |-> P] : P \in SUBSET ManagerSet}

\* The most lines (for yarn: body items) a listing prints.
MaxLines == 2

\* A sample line: its text, and the entry it holds when read as
\* name@version (at) and when read as name<whitespace>version (sp).
Sample(text, at, sp) == [text |-> text, at |-> at, sp |-> sp]

\* A blank line; a one-word header; name@version, twice and with a scope;
\* an @ with nothing after it; name version, with one space and with two;
\* a header of three words.
Bodies ==
    {Sample(<<>>, NoItem, NoItem),
     Sample(<<"a">>, NoItem, NoItem),
     Sample(<<"a", "@", "1">>, Item(TRUE, <<"a">>, <<"1">>), NoItem),
     Sample(<<"b", "@", "2">>, Item(TRUE, <<"b">>, <<"2">>), NoItem),
     Sample(<<"@", "a", "@", "1">>, Item(TRUE, <<"@", "a">>, <<"1">>), NoItem),
     Sample(<<"a", "@">>, NoItem, NoItem),
     Sample(<<"a", " ", "1">>, NoItem, Item(TRUE, <<"a">>, <<"1">>)),
     Sample(<<"b", " ", " ", "2">>, NoItem, Item(TRUE, <<"b">>, <<"2">>)),
     Sample(<<"a", " ", "b", " ", "c">>, NoItem, NoItem)}

\* What a line of a tree starts with: nothing, or a branch.
Leads == {<<>>, <<"|-", "--", " ">>}

Lines == {Sample(lead \o b.text, b.at, b.sp) : lead \in Leads, b \in Bodies}

\* Each line of text followed by a newline.
RECURSIVE JoinLines(_)
JoinLines(lines) ==
    IF lines = <<>> THEN <<>>
    ELSE Head(lines).text \o <<"\n">> \o JoinLines(Tail(lines))

\* yarn's output: an info record, a line that is not JSON, and the list
\* record with the items as its body.
YarnStdout(items) ==
    <<YarnLine(TRUE, "info", <<>>),
      YarnLine(FALSE, "", <<>>),
      YarnLine(TRUE, "list", [i \in 1..Len(items) |-> items[i].text])>>

\* getGlobalPackages on the managers whose output is read as text.
ListingCalls ==
    {[fn |-> "getGlobalPackages", pm |-> m, lines |-> ls, stdout |-> JoinLines(ls)] :
        m \in {"bun", "pnpm"}, ls \in SeqsUpTo(Lines, MaxLines)}
    \cup {[fn |-> "getGlobalPackages", pm |-> "yarn", lines |-> ls,
           stdout |-> YarnStdout(ls)] : ls \in SeqsUpTo(Bodies, MaxLines)}

\* upgradePackages on some names, possibly none, the command succeeding
\* or failing.
UpgradeInputs ==
    {[fn |-> "upgradePackages", pm |-> m, names |-> ns, execOk |-> ok] :
        m \in ManagerSet, ns \in SeqsUpTo({l.name : l \in Listed}, MaxPackages),
        ok \in BOOLEAN}

Returns(threw, value) == [done |-> TRUE, threw |-> threw, value |-> value]

\* compareVersions(current, latest)
CallCompareVersions ==
    /\ entry = "unit" /\ pc = "call" /\ call.fn = "compareVersions"
    /\ ret' = Returns(FALSE, compareVersions(VersionText(call.current),
                                             VersionText(call.latest)))
    /\ pc' = "returned"
    /\ UNCHANGED <<call, entry, all, idx, packageManagers, allPackages,
                   packagesWithLatest, updatablePackages, packagesToUpgrade,
                   packagesByPM, processedCount, totalCount, failed, messages,
                   result, exitCode, log>>

\* compareVersions(a, a), (a, b), (b, a), (b, c), (a, c)
CallCompareVersionsPairwise ==
    /\ entry = "unit" /\ pc = "call" /\ call.fn = "compareVersions, pairwise"
    /\ LET a == OrderText(call.a)
           b == OrderText(call.b)
           c == OrderText(call.c)
       IN  ret' = Returns(FALSE, [aa |-> compareVersions(a, a),
                                  ab |-> compareVersions(a, b),
                                  ba |-> compareVersions(b, a),
                                  bc |-> compareVersions(b, c),
                                  ac |-> compareVersions(a, c)])
    /\ pc' = "returned"
    /\ UNCHANGED <<call, entry, all, idx, packageManagers, allPackages,
                   packagesWithLatest, updatablePackages, packagesToUpgrade,
                   packagesByPM, processedCount, totalCount, failed, messages,
                   result, exitCode, log>>

\* detectPackageManagers()
CallDetectPackageManagers ==
    /\ entry = "unit" /\ pc = "call" /\ call.fn = "detectPackageManagers"
    /\ LET r == detectPackageManagers(call.present)
       IN  /\ ret' = Returns(r.threw, r.value)
           /\ log' = log \o r.events
    /\ pc' = "returned"
    /\ UNCHANGED <<call, entry, all, idx, packageManagers, allPackages,
                   packagesWithLatest, updatablePackages, packagesToUpgrade,
                   packagesByPM, processedCount, totalCount, failed, messages,
                   result, exitCode>>

\* getGlobalPackages(pm), the command having printed call.stdout
CallGetGlobalPackages ==
    /\ entry = "unit" /\ pc = "call" /\ call.fn = "getGlobalPackages"
    /\ LET r == getGlobalPackages(call.pm, [ok |-> TRUE,
                                           items |-> LineItems(call.pm, call.stdout)])
       IN  /\ ret' = Returns(r.threw, r.value)
           /\ log' = log \o r.events
    /\ pc' = "returned"
    /\ UNCHANGED <<call, entry, all, idx, packageManagers, allPackages,
                   packagesWithLatest, updatablePackages, packagesToUpgrade,
                   packagesByPM, processedCount, totalCount, failed, messages,
                   result, exitCode>>

\* upgradePackages(pm, packageNames); what a rejected call returns is its error.
CallUpgradePackages ==
    /\ entry = "unit" /\ pc = "call" /\ call.fn = "upgradePackages"
    /\ LET r == upgradePackages(call.pm, call.names, call.execOk)
       IN  /\ ret' = Returns(r.threw, r.error)
           /\ log' = log \o r.events
    /\ pc' = "returned"
    /\ UNCHANGED <<call, entry, all, idx, packageManagers, allPackages,
                   packagesWithLatest, updatablePackages, packagesToUpgrade,
                   packagesByPM, processedCount, totalCount, failed, messages,
                   result, exitCode>>

UnitInit ==
    /\ entry = "unit"
    /\ all = FALSE
    /\ pc = "call"
    /\ idx = 1
    /\ packageManagers = <<>>
    /\ allPackages = <<>>
    /\ packagesWithLatest = <<>>
    /\ updatablePackages = <<>>
    /\ packagesToUpgrade = <<>>
    /\ packagesByPM = <<>>
    /\ processedCount = 0
    /\ totalCount = 0
    /\ failed = <<>>
    /\ messages = <<>>
    /\ result = NoResult
    /\ exitCode = -1
    /\ log = <<>>
    /\ \/ call \in CompareCalls
       \/ call \in OrderCalls
       \/ call \in DetectCalls
       \/ call \in ListingCalls
       \/ call \in UpgradeInputs
    /\ ret = NoReturn

UnitNext ==
    \/ CallCompareVersions
    \/ CallCompareVersionsPairwise
    \/ CallDetectPackageManagers
    \/ CallGetGlobalPackages
    \/ CallUpgradePackages

UnitSpec == UnitInit /\ [][UnitNext]_vars

-----------------------------------------------------------------------------
(* Properties.                                                             *)

Ops(op) == SelectSeq(log, LAMBDA e : e.op = op)

Probes == Ops("which")
Lists == Ops("list")
Fetches == Ops("fetch")
UpgradeCalls == Ops("upgradePackages")
Installs == Ops("install")

CallsFor(m) == SelectSeq(log, LAMBDA e : e.op = "upgradePackages" /\ e.pm = m)

SelectedOf(m) == SelectSeq(packagesToUpgrade, LAMBDA q : q.pm = m)

\* The user cancelled the multi-select or submitted it empty, or cancelled
\* or declined the confirmation.
PromptAborted ==
    \E i \in 1..Len(log) :
        \/ log[i].op = "multiselect" /\ log[i].res \in {"cancel", "empty"}
        \/ log[i].op = "confirm" /\ log[i].res \in {"cancel", "no"}

\* C1: in a run in which the user cancels the multi-select, submits an empty
\* selection, or cancels or declines the confirmation, upgradePackages is
\* never called and no upgrade process is started.
C1_CancelledRunNeverUpgrades ==
    PromptAborted =>
        /\ \A i \in 1..Len(log) : log[i].op \notin {"upgradePackages", "install"}
        /\ pc = "aborted"

C1_Witness ==
    /\ pc = "aborted"
    /\ Len(packagesToUpgrade) = 2
    /\ \E i \in 1..Len(log) : log[i].op = "confirm" /\ log[i].res = "no"

\* C2: whichever upgrade commands fail, the loop goes on: while upgrading,
\* the groups before the current one have each been attempted whether they
\* failed or not, no failure ends the run, and at the report every manager
\* with a confirmed package has been attempted exactly once.
C2_FailureIsolation ==
    /\ pc = "upgrade" => Len(UpgradeCalls) = idx - 1
    /\ UpgradeCalls # <<>> => pc \in {"upgrade", "reported"}
    /\ pc = "reported" =>
          \A m \in {q.pm : q \in Range(packagesToUpgrade)} : Len(CallsFor(m)) = 1

C2_Witness ==
    /\ pc = "reported"
    /\ Len(UpgradeCalls) = 2
    /\ UpgradeCalls[1].res = "fail"
    /\ UpgradeCalls[2].res = "ok"

\* C3: at the report, each manager occurring in the confirmed selection has
\* got exactly one upgradePackages call, naming exactly the selected packages
\* of that manager, in order; a manager not occurring in it has got none; and
\* each call started one process with the same names.
C3_OneCallPerManager ==
    pc = "reported" =>
        /\ \A m \in ManagerSet :
              IF SelectedOf(m) = <<>> THEN CallsFor(m) = <<>>
              ELSE /\ Len(CallsFor(m)) = 1
                   /\ CallsFor(m)[1].names = MapSeq(SelectedOf(m), NameOf)
        /\ Len(Installs) = Len(UpgradeCalls)
        /\ \A i \in 1..Len(Installs) :
              /\ Installs[i].pm = UpgradeCalls[i].pm
              /\ Installs[i].names = UpgradeCalls[i].names

C3_Witness ==
    /\ pc = "reported"
    /\ Len(UpgradeCalls) = 2
    /\ UpgradeCalls[1].pm # UpgradeCalls[2].pm
    /\ Len(UpgradeCalls[1].names) = 1
    /\ Len(UpgradeCalls[2].names) = 1

\* What the run announced at its end: the tool's success field; for the CLI,
\* the closing "Successfully upgraded all selected packages!".
AnnouncedSuccess ==
    IF entry = "tool" THEN result.kind = "returned" /\ result.success
    ELSE \E i \in 1..Len(messages) :
            /\ messages[i].ch = "outro"
            /\ messages[i].text = "Successfully upgraded all selected packages!"

FailedCalls == SelectSeq(UpgradeCalls, LAMBDA e : e.res = "fail")

\* The failed managers the run listed, in order: the tool's failed field;
\* for the CLI, its p.log.error lines.
ReportedFailures ==
    IF entry = "tool" THEN MapSeq(result.failed, LAMBDA f : f.pm)
    ELSE MapSeq(SelectSeq(messages, LAMBDA m : m.ch = "log.error"), LAMBDA m : m.pm)

\* C4: at the report, the outcome is overall success exactly when no manager
\* group failed, and each failed manager is listed.
C4_SuccessIffNoGroupFailed ==
    pc = "reported" =>
        /\ AnnouncedSuccess <=> (FailedCalls = <<>>)
        /\ ReportedFailures = MapSeq(FailedCalls, LAMBDA e : e.pm)

\* The listed package at position i resolved, by lookup f[i], to a newer
\* version.
HasUpdateAt(f, i) ==
    /\ f[i].res = "ok"
    /\ f[i].val # <<>>
    /\ compareVersions(allPackages[i].version, f[i].val)

AsListed(q) == GlobalPackage(q.name, q.version, q.pm)

CheckingOver == allPackages # <<>> /\ pc \notin {"detect", "list", "check"}

\* C5: while checking, every package before the current one has been looked
\* up, whether the lookups resolved or not; once checking is over, every
\* listed package has been looked up by its name, and the updatable packages
\* are exactly the listed ones whose lookup resolved to a version that
\* compareVersions finds newer, in order, each with that version; the run
\* went on to the selection unless none is updatable.
C5_UpdatableExact ==
    LET f == Fetches
    IN  /\ pc = "check" => Len(f) = idx - 1
        /\ CheckingOver =>
              /\ Len(f) = Len(allPackages)
              /\ \A i \in 1..Len(allPackages) : f[i].names = <<allPackages[i].name>>
              /\ LET I == {i \in 1..Len(allPackages) : HasUpdateAt(f, i)}
                 IN  /\ MapSeq(updatablePackages, AsListed) = Pick(allPackages, I, 1)
                     /\ MapSeq(updatablePackages, LAMBDA q : q.latestVersion)
                           = MapSeq(Pick(f, I, 1), LAMBDA e : e.val)
                     /\ \A q \in Range(updatablePackages) : q.hasUpdate
                     /\ (pc = "aborted" /\ ~PromptAborted) => I = {}

C5_Witness ==
    /\ pc = "select"
    /\ Len(allPackages) = 2
    /\ Fetches[1].res = "fail"
    /\ Len(updatablePackages) = 1

\* C6: when detection returns no manager the run is over: the CLI has shown
\* "No package managers found on your system" and exited with 1, the tool has
\* thrown the error with that message, and nothing but the probes was issued.
C6_NoManagersAborts ==
    (pc # "detect" /\ packageManagers = <<>>) =>
        /\ pc = "aborted"
        /\ \A i \in 1..Len(log) : log[i].op = "which"
        /\ entry = "cli" =>
              /\ exitCode = 1
              /\ \E i \in 1..Len(messages) :
                    /\ messages[i].ch = "outro"
                    /\ messages[i].text = "No package managers found on your system"
        /\ entry = "tool" => result = Threw("No package managers found on your system")

C6_Witness ==
    /\ pc = "aborted"
    /\ packageManagers = <<>>
    /\ Len(Probes) = Len(Managers)

ListingOver == packageManagers # <<>> /\ pc \notin {"detect", "list"}

\* C7: a listing command that fails does not end the run and adds no package:
\* while listing, the managers before the current one have each been listed
\* whether their command failed or not; once listing is over every detected
\* manager has been listed, in order, allPackages holds no package of a
\* manager whose command failed, and if any package was listed the run went
\* on to look every listed package up; a run that listed anything never ends
\* with exit code 1 or a thrown error.
C7_ListingFailureIsEmpty ==
    /\ pc = "list" => Len(Lists) = idx - 1
    /\ ListingOver =>
          /\ MapSeq(Lists, LAMBDA e : e.pm) = packageManagers
          /\ \A i \in 1..Len(Lists) :
                Lists[i].res = "fail" =>
                    \A q \in Range(allPackages) : q.pm # Lists[i].pm
          /\ allPackages # <<>> /\ pc # "check" => Len(Fetches) = Len(allPackages)
    /\ Lists # <<>> => exitCode # 1 /\ result.kind # "threw"

C7_Witness ==
    /\ pc = "reported"
    /\ Len(Lists) = 2
    /\ Lists[1].res = "fail"
    /\ Lists[2].res = "ok"
    /\ Len(UpgradeCalls) = 1
    /\ UpgradeCalls[1].pm = Lists[2].pm

\* C8: a run ended by an empty or cancelled selection or by a declined or
\* cancelled confirmation ends with a success outcome: exit code 0 for the
\* CLI, success: true for the tool.
C8_PromptAbortIsSuccess ==
    (pc = "aborted" /\ PromptAborted) =>
        IF entry = "cli" THEN exitCode = 0
        ELSE result.kind = "returned" /\ result.success

\* C9: with the all flag the tool presents no prompt, enters the upgrade with
\* exactly the updatable packages, never stops between checking and
\* upgrading when something is updatable, and at the report the names passed
\* to upgradePackages, manager by manager, are those of the updatable
\* packages.
C9_SelectAllUpgradesUpdatable ==
    (entry = "tool" /\ all) =>
        /\ \A i \in 1..Len(log) : log[i].op \notin {"multiselect", "confirm"}
        /\ pc \in {"upgrade", "reported"} => packagesToUpgrade = updatablePackages
        /\ pc = "aborted" => updatablePackages = <<>>
        /\ pc = "reported" =>
              \A m \in ManagerSet :
                 Concat(MapSeq(CallsFor(m), LAMBDA e : e.names))
                    = MapSeq(SelectSeq(updatablePackages, LAMBDA q : q.pm = m), NameOf)

C9_Witness ==
    /\ entry = "tool" /\ all
    /\ pc = "reported"
    /\ Len(updatablePackages) = 1
    /\ Len(packagesWithLatest) = 2

Detected == Range(packageManagers)

Ended == pc \in {"reported", "aborted"}

Prompts == SelectSeq(log, LAMBDA e : e.op \in {"multiselect", "confirm"})

\* C15: when no listed package has an update (none was listed, or no lookup
\* resolved, or no resolved version is newer), the run ends with a success
\* outcome (the CLI with exit code 0, the tool returning success), without
\* any prompt and without any upgrade call or process; when no package was
\* listed there is no registry lookup either.
C15_NothingToUpdateEndsQuietly ==
    LET f == Fetches
    IN  (ListingOver /\ pc # "check" /\ \A i \in 1..Len(f) : ~HasUpdateAt(f, i))
            => /\ pc = "aborted"
               /\ entry = "cli" => exitCode = 0
               /\ entry = "tool" => result.kind = "returned" /\ result.success
               /\ Prompts = <<>>
               /\ UpgradeCalls = <<>> /\ Installs = <<>>
               /\ allPackages = <<>> => f = <<>>

\* Two packages were listed and looked up, one lookup resolved, and its
\* version is not newer: the run is over.
C15_Witness ==
    /\ Ended
    /\ Len(allPackages) = 2 /\ Len(Fetches) = 2
    /\ Len(packagesWithLatest) = 1
    /\ updatablePackages = <<>>

\* C17: the CLI's exit code is 0 at the end of every run in which a manager
\* was detected and no error escaped run(), also when some or all upgrade
\* batches failed; it is 1 exactly when no manager was detected or an error
\* escaped to the entry point's catch.
C17_ExitCodes ==
    entry = "cli" =>
        LET fatal == \E i \in 1..Len(messages) : messages[i] = FatalMsg
        IN  /\ ~Ended => exitCode = -1
            /\ Ended => exitCode = (IF packageManagers = <<>> \/ fatal THEN 1 ELSE 0)

\* The CLI reported after all its batches, two of them, failed.
C17_Witness ==
    /\ entry = "cli" /\ pc = "reported"
    /\ Len(UpgradeCalls) = 2
    /\ \A i \in 1..Len(UpgradeCalls) : UpgradeCalls[i].res = "fail"
    /\ exitCode = 0

\* The state a call on a collaborator belongs to, and the state the
\* orchestrator is in.
StateOfCall(op) ==
    CASE op = "which" -> 1
      [] op = "list" -> 2
      [] op = "fetch" -> 3
      [] op = "multiselect" -> 4
      [] op = "confirm" -> 5
      [] op \in {"upgradePackages", "install"} -> 6

StateOfRun ==
    CASE pc = "detect" -> 1
      [] pc = "list" -> 2
      [] pc = "check" -> 3
      [] pc = "select" -> 4
      [] pc = "confirm" -> 5
      [] pc = "upgrade" -> 6
      [] Ended -> 7

\* C19: the run goes through Detecting, Enumerating, Checking, Selecting,
\* Confirming, Upgrading, Reporting in that order and never back: in the
\* history every probe precedes every listing command, every listing every
\* registry lookup, every lookup every prompt, every prompt every upgrade
\* command, and no call belongs to a state after the one the run is in.
C19_StatesInOrder ==
    /\ \A i \in 1..Len(log) : StateOfCall(log[i].op) <= StateOfRun
    /\ \A i \in 1..(Len(log) - 1) : StateOfCall(log[i].op) <= StateOfCall(log[i + 1].op)

\* A run that made calls in each of the six states.
C19_Witness ==
    /\ pc = "reported"
    /\ {StateOfCall(log[i].op) : i \in 1..Len(log)} = 1..6
    /\ Len(Lists) = 2 /\ Len(Fetches) = 2

\* C20: every name passed to upgradePackages(m, names) is the name of a
\* package that m listed in this run, whose lookup resolved, to a version
\* that compareVersions finds newer than the listed one.
C20_UpgradesOnlyUpdatable ==
    LET f == Fetches
    IN  \A c \in 1..Len(log) :
            log[c].op \in {"upgradePackages", "install"} =>
                \A n \in 1..Len(log[c].names) :
                    \E i \in 1..Len(f) :
                        /\ allPackages[i].name = log[c].names[n]
                        /\ allPackages[i].pm = log[c].pm
                        /\ HasUpdateAt(f, i)

\* One of two checked packages was upgraded; the other, listed by the same
\* manager, resolved to a version that is not newer.
C20_Witness ==
    /\ Len(UpgradeCalls) = 1 /\ Len(UpgradeCalls[1].names) = 1
    /\ Len(packagesWithLatest) = 2 /\ Len(updatablePackages) = 1
    /\ packagesWithLatest[1].pm = packagesWithLatest[2].pm

\* The sizes of the groups of some upgrade calls, added up.
RECURSIVE SizeOfGroups(_)
SizeOfGroups(calls) ==
    IF calls = <<>> THEN 0 ELSE Len(Head(calls).names) + SizeOfGroups(Tail(calls))

\* C21: throughout the upgrade loop (of the tool, and for the count of the
\* CLI too) the upgraded count is the sum of the sizes of the groups whose
\* upgrade succeeded so far, and the tool's failed list has one entry per
\* group that failed so far, in order, under that group's manager; in what
\* the tool reports, upgraded plus the sizes of the failed groups is the
\* total selected, 0 <= upgraded <= total, and upgraded = total exactly when
\* the failed list is empty.
C21_CountsAddUp ==
    pc \in {"upgrade", "reported"} =>
        LET calls == UpgradeCalls
            okCalls == SelectSeq(calls, LAMBDA e : e.res = "ok")
            failedCalls == SelectSeq(calls, LAMBDA e : e.res = "fail")
        IN  /\ processedCount = SizeOfGroups(okCalls)
            /\ totalCount = Len(packagesToUpgrade)
            /\ entry = "tool" =>
                  /\ [i \in 1..Len(failed) |-> failed[i].pm]
                        = [i \in 1..Len(failedCalls) |-> failedCalls[i].pm]
                  /\ pc = "reported" =>
                        /\ result.upgraded = processedCount
                        /\ result.total = totalCount
                        /\ result.failed = failed
                        /\ result.upgraded + SizeOfGroups(failedCalls) = result.total
                        /\ 0 <= result.upgraded /\ result.upgraded <= result.total
                        /\ (result.upgraded = result.total) <=> (result.failed = <<>>)

\* The tool reported one group upgraded and one failed, of two selected.
C21_Witness ==
    /\ entry = "tool" /\ pc = "reported"
    /\ result.upgraded = 1 /\ result.total = 2
    /\ Len(result.failed) = 1
    /\ Len(UpgradeCalls) = 2

-----------------------------------------------------------------------------
(* Properties of the adapter's functions.                                  *)

HasReturned(fn) == call.fn = fn /\ ret.done

\* The i-th number of a version, 0 past its last component.
NumberAt(v, i) == IF i <= Len(v.parts) THEN v.parts[i].n ELSE 0

\* The positions where two versions differ (none past the longer length).
Differing(a, b) ==
    {i \in 1..(Len(a.parts) + Len(b.parts)) : NumberAt(a, i) # NumberAt(b, i)}

FirstOf(S) == CHOOSE i \in S : \A j \in S : i <= j

\* b is greater than a at the first position where they differ.
NewerByParts(a, b) ==
    LET D == Differing(a, b)
    IN  D # {} /\ NumberAt(b, FirstOf(D)) > NumberAt(a, FirstOf(D))

\* C11: for dotted numeric version strings a and b (no prefix),
\* compareVersions(a, b) is true exactly when, comparing the components as
\* numbers from the left up to the longer length with a missing component
\* as 0, b is greater at the first position where they differ; when all
\* positions are equal (1.0 against 1.0.0) it is false.
C11_NewerAtFirstDifference ==
    HasReturned("compareVersions") /\ call.current.prefix = <<>> /\ call.latest.prefix = <<>>
        => /\ ~ret.threw
           /\ ret.value = NewerByParts(call.current, call.latest)
           /\ Differing(call.current, call.latest) = {} => ret.value = FALSE

\* 2.0 was compared with 2.0.10: the lengths differ, the first difference
\* is past the end of the shorter, and the result is true.
C11_Witness ==
    /\ HasReturned("compareVersions")
    /\ call.current.prefix = <<>> /\ call.latest.prefix = <<>>
    /\ Len(call.current.parts) = 2 /\ Len(call.latest.parts) = 3
    /\ Differing(call.current, call.latest) = {3}
    /\ ret.value = TRUE


\* The version without its prefix.
Bare(v) == [v EXCEPT !.prefix = <<>>]

\* C12: a prefix of non-digits (^, ~v) on either argument or on both does
\* not change the result: compareVersions(p+a, q+b), compareVersions(p+a, b)
\* and compareVersions(a, q+b) all equal compareVersions(a, b).
C12_PrefixInsensitive ==
    HasReturned("compareVersions")
        /\ (call.current.prefix # <<>> \/ call.latest.prefix # <<>>)
        => ret.value = compareVersions(VersionText(Bare(call.current)),
                                       VersionText(Bare(call.latest)))

\* ^2.x was compared with ~v10.x, and the latter found newer.
C12_Witness ==
    /\ HasReturned("compareVersions")
    /\ call.current.prefix = <<"^">> /\ call.latest.prefix = <<"~", "v">>
    /\ call.current.parts[1].n = 2 /\ call.latest.parts[1].n = 10
    /\ ret.value = TRUE


\* C13: whichever of the four probes fail (16 combinations),
\* detectPackageManagers does not raise, probes all four managers, once
\* each and in the order of the list, whatever the earlier probes answered,
\* and returns exactly the managers whose probe succeeded, each once.
C13_DetectReturnsExactlyPresent ==
    HasReturned("detectPackageManagers")
        => LET probes == Probes
           IN  /\ ~ret.threw
               /\ [i \in 1..Len(probes) |-> probes[i].pm] = Managers
               /\ \A i \in 1..Len(probes) :
                      probes[i].res = Outcome(probes[i].pm \in call.present)
               /\ Range(ret.value) = call.present
               /\ Len(ret.value) = Cardinality(call.present)

\* The first and the third probe failed; the other two managers came back.
C13_Witness ==
    /\ HasReturned("detectPackageManagers")
    /\ call.present = {"pnpm", "bun"}
    /\ ret.value = <<"pnpm", "bun">>
    /\ Len(Probes) = 4


\* The entry a sample line holds for a manager: pnpm separates name and
\* version by whitespace, bun and yarn by @.
HeldBy(line, pm) == IF pm = "pnpm" THEN line.sp ELSE line.at

\* One package per line that holds an entry, in the order of the lines.
PackagesOf(lines, pm) ==
    LET held == SelectSeq([i \in 1..Len(lines) |-> HeldBy(lines[i], pm)],
                          LAMBDA e : e.wf)
    IN  [i \in 1..Len(held) |-> GlobalPackage(held[i].name, held[i].version, pm)]

\* C14: for bun, pnpm and yarn, getGlobalPackages returns, in line order,
\* exactly one package per well-formed line (name@version for bun and for
\* yarn's body items, name<whitespace>version for pnpm, after the leading
\* tree characters and whitespace are stripped), split at the separator,
\* and no package for any other line: a blank line, a header or summary
\* line of one or of several words.
C14_OnePackagePerWellFormedLine ==
    HasReturned("getGlobalPackages")
        => ~ret.threw /\ ret.value = PackagesOf(call.lines, call.pm)


\* The upgrade command of the call ran and failed.
CommandFailed ==
    \E i \in 1..Len(log) : log[i].op = "install" /\ log[i].res = "fail"

\* C16: when its upgrade command fails, upgradePackages raises, and the
\* error it raises is the command's own failure: it names the manager whose
\* command it was, that manager's subcommand and the names of the batch.
C16_FailedUpgradeRaises ==
    HasReturned("upgradePackages") /\ CommandFailed
        => /\ ret.threw
           /\ ret.value.bin = call.pm
           /\ ret.value = UpgradeCommand(call.pm, call.names)
           /\ [i \in 1..Len(ret.value.args) |-> ret.value.args[i].name] = call.names

\* yarn's command for two packages failed and the call raised.
C16_Witness ==
    /\ HasReturned("upgradePackages") /\ CommandFailed
    /\ call.pm = "yarn" /\ Len(call.names) = 2
    /\ ret.threw /\ ret.value.bin = "yarn" /\ ret.value.sub = "global add"

\* C18: upgradePackages with no names completes normally without starting
\* any process, for every manager (and whatever the command would do).
C18_EmptyNamesIsNoOp ==
    HasReturned("upgradePackages") /\ call.names = <<>>
        => ~ret.threw /\ ret.value = NoError /\ log = <<>>

\* bun was called with no names where its command would have failed.
C18_Witness ==
    /\ HasReturned("upgradePackages")
    /\ call.names = <<>> /\ call.pm = "bun" /\ ~call.execOk
    /\ ~ret.threw


\* C22, as stated: compareVersions is a strict order: compareVersions(a, a)
\* is false, compareVersions(a, b) and compareVersions(b, a) are never both
\* true, and compareVersions(a, b) with compareVersions(b, c) gives
\* compareVersions(a, c); and every component that is not a plain number is
\* compared as 0, so that the result on two non-empty strings is the
\* comparison of their components' numbers.
C22_StrictOrderComponentsAsZero ==
    HasReturned("compareVersions, pairwise")
        => LET r == ret.value
           IN  /\ ~r.aa
               /\ ~(r.ab /\ r.ba)
               /\ (r.ab /\ r.bc) => r.ac
               /\ (call.a.parts # <<>> /\ call.b.parts # <<>>)
                     => r.ab = NewerByParts(call.a, call.b)

\* The components left once those in front that start with no digit are
\* gone with their dots; the number 0 alone when none is left.
RECURSIVE FromFirstDigit(_)
FromFirstDigit(parts) ==
    IF parts = <<>> THEN <<Component(<<>>, 0)>>
    ELSE IF Head(Head(parts).text) \in Digits THEN parts
    ELSE FromFirstDigit(Tail(parts))

AfterStrip(v) == [v EXCEPT !.parts = FromFirstDigit(v.parts)]

\* C22, amended: compareVersions is a strict order (irreflexive, asymmetric,
\* transitive) on all strings, the empty one included; on two non-empty
\* strings its result is the comparison of the components' numbers after
\* the leading components without a digit are dropped from each string,
\* a later component that is not a number counting as 0.
C22_StrictOrderAfterStrip ==
    HasReturned("compareVersions, pairwise")
        => LET r == ret.value
           IN  /\ ~r.aa
               /\ ~(r.ab /\ r.ba)
               /\ (r.ab /\ r.bc) => r.ac
               /\ (call.a.parts = <<>> \/ call.b.parts = <<>>) => ~r.ab
               /\ (call.a.parts # <<>> /\ call.b.parts # <<>>)
                     => r.ab = NewerByParts(AfterStrip(call.a), AfterStrip(call.b))

\* 0.2, then x.2 (compared as 2), then 2.x (compared as 2.0, which is equal
\* to 2): the second newer than the first, the third not newer than the
\* second.
C22_Witness ==
    /\ HasReturned("compareVersions, pairwise")
    /\ OrderText(call.a) = <<"0", ".", "2">>
    /\ OrderText(call.b) = <<"x", ".", "2">>
    /\ OrderText(call.c) = <<"2", ".", "x">>
    /\ ret.value.ab /\ ~ret.value.bc /\ ret.value.ac

=============================================================================
